---------------------------- MODULE Spec2Model ----------------------------
(***************************************************************************)
(* The notebooks of Intro-QC-TRIUMF as state machines.                     *)
(*                                                                         *)
(*   Spec       the quantum teleportation notebook: the cells build the    *)
(*              circuit `teleportation`, and execute(...) runs it on the   *)
(*              statevector simulator one instruction at a time.           *)
(*   MovieSpec  the single-qubit gates notebook: one call of create_movie, *)
(*              from one of its cells or with a sequence of the caller's.  *)
(*   GateSpec   the matrix u3(theta, phi, lambda) for an angle triple.     *)
(*                                                                         *)
(* Amplitudes are exact.  Every angle is an integer multiple of pi/8, so   *)
(* every amplitude lies in Z[zeta][1/2] with zeta = e^(i pi/8), zeta^8 =   *)
(* -1.  A number is [c |-> <<c0,...,c7>>, e |-> k], standing for           *)
(* (c0 + c1 zeta + ... + c7 zeta^7) / 2^k, kept in lowest terms so that    *)
(* equal numbers are equal values.                                         *)
(***************************************************************************)
EXTENDS Integers, Sequences, FiniteSets, TLC

-----------------------------------------------------------------------------
(* Exact complex arithmetic in Z[zeta][1/2]                                *)

Idx == 0..7

Pow2(k) == 2^k

AllEven(c) == \A i \in 1..Len(c) : c[i] % 2 = 0

AllZero(c) == \A i \in 1..Len(c) : c[i] = 0

RECURSIVE Reduce(_)
Reduce(x) ==
    IF AllZero(x.c) THEN [c |-> x.c, e |-> 0]
    ELSE IF x.e > 0 /\ AllEven(x.c)
         THEN Reduce([c |-> [i \in 1..Len(x.c) |-> x.c[i] \div 2], e |-> x.e - 1])
         ELSE x

Zero == [c |-> <<0, 0, 0, 0, 0, 0, 0, 0>>, e |-> 0]

One == [c |-> <<1, 0, 0, 0, 0, 0, 0, 0>>, e |-> 0]

\* zeta^k for any integer k (zeta^8 = -1, zeta^16 = 1)
ZetaPow(k) ==
    LET r == k % 16
        j == r % 8
        s == IF r < 8 THEN 1 ELSE -1
    IN  [c |-> [i \in 1..8 |-> IF i = j + 1 THEN s ELSE 0], e |-> 0]

Neg(x) == [c |-> [i \in 1..8 |-> -x.c[i]], e |-> x.e]

Add(x, y) ==
    LET m == IF x.e > y.e THEN x.e ELSE y.e
        fx == Pow2(m - x.e)
        fy == Pow2(m - y.e)
    IN  Reduce([c |-> [i \in 1..8 |-> fx * x.c[i] + fy * y.c[i]], e |-> m])

Sub(x, y) == Add(x, Neg(y))

\* coefficient k of the product of two polynomials in zeta, reduced by zeta^8 = -1
Coef(a, b, k) ==
    LET T(i) == IF i <= k THEN a[i + 1] * b[k - i + 1]
                ELSE -(a[i + 1] * b[k - i + 9])
    IN  T(0) + T(1) + T(2) + T(3) + T(4) + T(5) + T(6) + T(7)

Mul(x, y) ==
    IF x = Zero \/ y = Zero THEN Zero
    ELSE IF x = One THEN y
    ELSE IF y = One THEN x
    ELSE Reduce([c |-> [i \in 1..8 |-> Coef(x.c, y.c, i - 1)], e |-> x.e + y.e])

HalfOf(x) == Reduce([c |-> x.c, e |-> x.e + 1])

\* complex conjugate: conj(zeta^k) = zeta^(-k) = -zeta^(8-k)
Conj(x) == [c |-> [i \in 1..8 |-> IF i = 1 THEN x.c[1] ELSE -x.c[10 - i]], e |-> x.e]

\* |x|^2
Abs2(x) == Mul(x, Conj(x))

\* sqrt(2) = zeta^2 - zeta^6 and 1/sqrt(2) = sqrt(2)/2
Sqrt2 == Sub(ZetaPow(2), ZetaPow(6))

InvSqrt2 == HalfOf(Sqrt2)

\* cos and sin of k * pi/8
Cos(k) == HalfOf(Add(ZetaPow(k), ZetaPow(-k)))

Sin(k) == HalfOf(Sub(ZetaPow(k - 4), ZetaPow(-k - 4)))

\* e^(i k pi/8)
Expi(k) == ZetaPow(k)

\* pi, in the unit of the angles: pi/8
Pi == 8


\* 1/sqrt(p) for a probability p; the collapse of a measurement renormalises by
\* it.  The roots held here are those of p = 1 and p = 1/2; any other p is left
\* unscaled, which shows as a state vector that is not normalised.
InvSqrt(p) ==
    IF p = One THEN One
    ELSE IF p = HalfOf(One) THEN Sqrt2
    ELSE One

-----------------------------------------------------------------------------
(* Gates and state vectors                                                 *)

\* u3 with e^(-i lambda) in place of e^(i lambda) in its upper right entry
U3ConjLambda(theta, phi, lam) ==
    LET h == theta \div 2
    IN  << << Cos(h), Neg(Mul(Expi(-lam), Sin(h))) >>,
           << Mul(Expi(phi), Sin(h)), Mul(Expi(phi + lam), Cos(h)) >> >>

\* u3(theta, phi, lambda), angles in units of pi/8, theta even
U3(theta, phi, lam) ==
    LET h == theta \div 2
    IN  << << Cos(h), Neg(Mul(Expi(lam), Sin(h))) >>,
           << Mul(Expi(phi), Sin(h)), Mul(Expi(phi + lam), Cos(h)) >> >>

\* the Hadamard matrix without its factor 1/sqrt(2)
HadamardUnscaled == << << One, One >>, << One, Neg(One) >> >>

\* H = u3(pi/2, 0, pi)
Hadamard == U3(Pi \div 2, 0, Pi)

PauliX == << << Zero, One >>, << One, Zero >> >>

PauliZ == << << One, Zero >>, << Zero, Neg(One) >> >>

\* bit q of basis index i (qubit 0 is the least significant bit)
Bit(i, q) == (i \div Pow2(q)) % 2

SetBit(i, q, b) == i - Bit(i, q) * Pow2(q) + b * Pow2(q)

\* |0...0> on n qubits; a state vector is a sequence, basis index i at place i+1
Ground(n) == [i \in 1..Pow2(n) |-> IF i = 1 THEN One ELSE Zero]

\* a one-qubit matrix U applied to qubit q of the state vector v
ApplyGate(U, q, v) ==
    [i \in 1..Len(v) |->
        LET b == Bit(i - 1, q)
        IN  Add(Mul(U[b + 1][1], v[SetBit(i - 1, q, 0) + 1]),
                Mul(U[b + 1][2], v[SetBit(i - 1, q, 1) + 1]))]

\* controlled-NOT, control c, target t
ApplyCX(c, t, v) ==
    [i \in 1..Len(v) |->
        IF Bit(i - 1, c) = 1 THEN v[SetBit(i - 1, t, 1 - Bit(i - 1, t)) + 1]
        ELSE v[i]]

RECURSIVE SumAbs2(_, _)
SumAbs2(v, n) == IF n = 0 THEN Zero ELSE Add(Abs2(v[n]), SumAbs2(v, n - 1))

\* sum of the squared magnitudes of the amplitudes
Norm2(v) == SumAbs2(v, Len(v))

\* the part of v where qubit q reads b
Project(q, b, v) == [i \in 1..Len(v) |-> IF Bit(i - 1, q) = b THEN v[i] ELSE Zero]

\* probability that measuring qubit q of v gives b
Probability(q, b, v) == Norm2(Project(q, b, v))

\* the state after qubit q was measured as b
Collapse(q, b, v) ==
    LET f == InvSqrt(Probability(q, b, v))
    IN  [i \in 1..Len(v) |-> Mul(f, Project(q, b, v)[i])]

-----------------------------------------------------------------------------
(* The teleportation notebook                                              *)

VARIABLES
    cell,            \* the next cell of the notebook to run
    random_angles,   \* the three angles of the state Alice sends
    teleportation,   \* the circuit: the sequence of its instructions
    running,         \* "" or which execute(...) is in progress
    ip,              \* the simulator's place in the circuit
    statevector,     \* the simulator's state vector
    measurement_0,   \* classical register m0
    measurement_1,   \* classical register m1
    log,             \* the instructions the simulator went through in this run
    initial_psi,     \* the state vector of the first execute
    final_psi        \* the state vector of the last execute

tvars == << cell, random_angles, teleportation, running, ip, statevector,
            measurement_0, measurement_1, log, initial_psi, final_psi >>

\* the single-qubit gates notebook: one call of create_movie
VARIABLES
    pc,                 \* where the call of create_movie stands
    name,               \* its argument name
    rotation_sequence,  \* its argument rotation_sequence
    start_from_plus,    \* its argument start_from_plus
    idx_frame,          \* the index enumerate gives to the next entry
    psi,                \* the state vector of the frame computed last
    dir,                \* the directory called name, on disk
    result,             \* what the call returned or raised
    calls               \* what the call has asked of the system so far, in order

mvars == << pc, name, rotation_sequence, start_from_plus, idx_frame, psi, dir,
            result, calls >>

\* the evaluation of one u3 matrix
VARIABLES
    rotation,        \* an angle triple
    unitary          \* the matrix u3 gives for it

gvars == << rotation, unitary >>

\* the vertex cover notebook
VARIABLES
    at,                  \* the cell the notebook has come to
    small_graph,         \* the graph nx.gnm_random_graph gave
    Q,                   \* the quadratic coefficients, one for each edge
    r,                   \* the linear coefficients, one for each vertex
    bqm,                 \* the BinaryQuadraticModel made of r and Q
    response,            \* the samples of the exact solver with their energies
    colour_assignments,  \* the first sample of the response
    colours              \* the colour each vertex is drawn in

cvars == << at, small_graph, Q, r, bqm, response, colour_assignments, colours >>

vars == << tvars, mvars, gvars, cvars >>

\* largest angle, in units of pi/8, that np.random.rand draws here
MaxAngle == 2

Thetas == {t \in 0..MaxAngle : t % 2 = 0}

Angles == 0..MaxAngle

\* the registers: Alice holds qubits 0 and 1, Bob holds qubit 2
alice == << 0, 1 >>

bob == << 2 >>

NumQubits == Len(alice) + Len(bob)

Instr(op, qargs, params, creg, condition) ==
    [name |-> op, qargs |-> qargs, params |-> params, creg |-> creg,
     condition |-> condition]

Gate(op, qargs) == Instr(op, qargs, << >>, "", << >>)

\* gate.c_if(register, value)
CIf(ins, creg, value) == [ins EXCEPT !.condition = << creg, value >>]

\* the single-qubit gates notebook at rest
MovieIdle ==
    /\ pc = "off"
    /\ name = ""
    /\ rotation_sequence = << >>
    /\ start_from_plus = FALSE
    /\ idx_frame = 0
    /\ psi = << >>
    /\ dir = [exists |-> FALSE, frames |-> {}, video |-> FALSE]
    /\ result = ""
    /\ calls = << >>

GateIdle ==
    /\ rotation = << >>
    /\ unitary = << >>

\* the vertex cover notebook at rest
CoverIdle ==
    /\ at = "off"
    /\ small_graph = << >>
    /\ Q = << >>
    /\ r = << >>
    /\ bqm = << >>
    /\ response = {}
    /\ colour_assignments = << >>
    /\ colours = << >>

\* the teleportation notebook at rest
TeleportationIdle ==
    /\ cell = "off"
    /\ random_angles = << >>
    /\ teleportation = << >>
    /\ running = ""
    /\ ip = 1
    /\ statevector = << >>
    /\ measurement_0 = 0
    /\ measurement_1 = 0
    /\ log = << >>
    /\ initial_psi = << >>
    /\ final_psi = << >>

Init ==
    /\ MovieIdle
    /\ GateIdle
    /\ CoverIdle
    /\ cell = "prepare"
    /\ random_angles = << >>
    /\ teleportation = << >>
    /\ running = ""
    /\ ip = 1
    /\ statevector = << >>
    /\ measurement_0 = 0
    /\ measurement_1 = 0
    /\ log = << >>
    /\ initial_psi = << >>
    /\ final_psi = << >>

\* random_angles = np.random.rand(3); teleportation.u3(*random_angles, alice[0])
PrepareCell ==
    /\ cell = "prepare"
    /\ \E theta \in Thetas, phi \in Angles, lam \in Angles :
          /\ random_angles' = << theta, phi, lam >>
          /\ teleportation' =
                Append(teleportation,
                       Instr("u3", << alice[1] >>, << theta, phi, lam >>, "", << >>))
    /\ cell' = "execute_initial"
    /\ UNCHANGED << mvars, gvars, cvars, running, ip, statevector, measurement_0,
                    measurement_1, log, initial_psi, final_psi >>

\* execute(teleportation, backend): the simulator starts from |000>, registers 0
StartRun(which) ==
    /\ running = ""
    /\ running' = which
    /\ ip' = 1
    /\ statevector' = Ground(NumQubits)
    /\ measurement_0' = 0
    /\ measurement_1' = 0
    /\ log' = << >>

ExecuteInitial ==
    /\ cell = "execute_initial"
    /\ StartRun("initial")
    /\ UNCHANGED << mvars, gvars, cvars, cell, random_angles, teleportation,
                    initial_psi, final_psi >>

\* the entangling cell with the control and the target of its CNOT exchanged
EntangleCellReversed ==
    /\ cell = "entangle"
    /\ teleportation' = teleportation \o
          << Gate("h", << alice[2] >>), Gate("cx", << bob[1], alice[2] >>) >>
    /\ cell' = "basis_change"
    /\ UNCHANGED << mvars, gvars, cvars, random_angles, running, ip, statevector,
                    measurement_0, measurement_1, log, initial_psi,
                    final_psi >>

\* teleportation.h(alice[1]); teleportation.cx(alice[1], bob[0])
EntangleCell ==
    /\ cell = "entangle"
    /\ teleportation' = teleportation \o
          << Gate("h", << alice[2] >>), Gate("cx", << alice[2], bob[1] >>) >>
    /\ cell' = "basis_change"
    /\ UNCHANGED << mvars, gvars, cvars, random_angles, running, ip, statevector,
                    measurement_0, measurement_1, log, initial_psi,
                    final_psi >>

\* the basis-change cell with its two gates in the other order
BasisChangeCellSwapped ==
    /\ cell = "basis_change"
    /\ teleportation' = teleportation \o
          << Gate("h", << alice[1] >>), Gate("cx", << alice[1], alice[2] >>) >>
    /\ cell' = "measure"
    /\ UNCHANGED << mvars, gvars, cvars, random_angles, running, ip, statevector,
                    measurement_0, measurement_1, log, initial_psi,
                    final_psi >>

\* teleportation.cx(alice[0], alice[1]); teleportation.h(alice[0])
BasisChangeCell ==
    /\ cell = "basis_change"
    /\ teleportation' = teleportation \o
          << Gate("cx", << alice[1], alice[2] >>), Gate("h", << alice[1] >>) >>
    /\ cell' = "measure"
    /\ UNCHANGED << mvars, gvars, cvars, random_angles, running, ip, statevector,
                    measurement_0, measurement_1, log, initial_psi,
                    final_psi >>

\* the measure cell with the two classical registers exchanged
MeasureCellSwapped ==
    /\ cell = "measure"
    /\ teleportation' = teleportation \o
          << Instr("measure", << alice[1] >>, << >>, "m1", << >>),
             Instr("measure", << alice[2] >>, << >>, "m0", << >>) >>
    /\ cell' = "correct"
    /\ UNCHANGED << mvars, gvars, cvars, random_angles, running, ip, statevector,
                    measurement_0, measurement_1, log, initial_psi,
                    final_psi >>

\* teleportation.measure(alice[0], measurement_0[0]); ...(alice[1], measurement_1[0])
MeasureCell ==
    /\ cell = "measure"
    /\ teleportation' = teleportation \o
          << Instr("measure", << alice[1] >>, << >>, "m0", << >>),
             Instr("measure", << alice[2] >>, << >>, "m1", << >>) >>
    /\ cell' = "correct"
    /\ UNCHANGED << mvars, gvars, cvars, random_angles, running, ip, statevector,
                    measurement_0, measurement_1, log, initial_psi,
                    final_psi >>

\* the corrections with the two registers exchanged
CorrectionsCrossed ==
    << CIf(Gate("x", << bob[1] >>), "m0", 1),
       CIf(Gate("z", << bob[1] >>), "m1", 1) >>

\* the corrections with the c_if of the X gate left out
CorrectionsUnconditionalX ==
    << Gate("x", << bob[1] >>),
       CIf(Gate("z", << bob[1] >>), "m0", 1) >>

\* the corrections in the other order: Z first, then X
CorrectionsZFirst ==
    << CIf(Gate("z", << bob[1] >>), "m0", 1),
       CIf(Gate("x", << bob[1] >>), "m1", 1) >>

\* teleportation.x(bob[0]).c_if(measurement_1, 1); ...z(bob[0]).c_if(measurement_0, 1)
Corrections ==
    << CIf(Gate("x", << bob[1] >>), "m1", 1),
       CIf(Gate("z", << bob[1] >>), "m0", 1) >>

CorrectCell ==
    /\ cell = "correct"
    /\ teleportation' = teleportation \o Corrections
    /\ cell' = "execute_final"
    /\ UNCHANGED << mvars, gvars, cvars, random_angles, running, ip, statevector,
                    measurement_0, measurement_1, log, initial_psi,
                    final_psi >>

ExecuteFinal ==
    /\ cell = "execute_final"
    /\ StartRun("final")
    /\ UNCHANGED << mvars, gvars, cvars, cell, random_angles, teleportation,
                    initial_psi, final_psi >>

-----------------------------------------------------------------------------
(* The statevector simulator: one instruction of the circuit per step       *)

Cur == teleportation[ip]

Stepping == running # "" /\ ip <= Len(teleportation)

RegValue(creg) == IF creg = "m0" THEN measurement_0 ELSE measurement_1

\* an instruction under c_if acts only when its register holds the value
CondMet(ins) ==
    ins.condition = << >> \/ RegValue(ins.condition[1]) = ins.condition[2]

LogEntry(ins, applied) == [name |-> ins.name, qargs |-> ins.qargs, applied |-> applied]

\* a gate instruction: the state vector becomes v when the condition is met
GateStep(op, v) ==
    /\ Stepping
    /\ Cur.name = op
    /\ statevector' = IF CondMet(Cur) THEN v ELSE statevector
    /\ log' = Append(log, LogEntry(Cur, CondMet(Cur)))
    /\ ip' = ip + 1
    /\ UNCHANGED << mvars, gvars, cvars, cell, random_angles, teleportation,
                    running, measurement_0, measurement_1, initial_psi,
                    final_psi >>

SimU3 ==
    GateStep("u3", ApplyGate(U3(Cur.params[1], Cur.params[2], Cur.params[3]),
                             Cur.qargs[1], statevector))

SimH == GateStep("h", ApplyGate(Hadamard, Cur.qargs[1], statevector))

SimCX == GateStep("cx", ApplyCX(Cur.qargs[1], Cur.qargs[2], statevector))

SimX == GateStep("x", ApplyGate(PauliX, Cur.qargs[1], statevector))

SimZ == GateStep("z", ApplyGate(PauliZ, Cur.qargs[1], statevector))

\* a measurement: an outcome of nonzero probability is drawn, the state vector
\* collapses onto it and the outcome is written to the classical register
SimMeasure ==
    /\ Stepping
    /\ Cur.name = "measure"
    /\ \E outcome \in {0, 1} :
          /\ Probability(Cur.qargs[1], outcome, statevector) # Zero
          /\ statevector' = Collapse(Cur.qargs[1], outcome, statevector)
          /\ measurement_0' = IF Cur.creg = "m0" THEN outcome ELSE measurement_0
          /\ measurement_1' = IF Cur.creg = "m1" THEN outcome ELSE measurement_1
    /\ log' = Append(log, LogEntry(Cur, TRUE))
    /\ ip' = ip + 1
    /\ UNCHANGED << mvars, gvars, cvars, cell, random_angles, teleportation,
                    running, initial_psi, final_psi >>

\* result.get_statevector(teleportation), once the whole circuit has run
GetStatevector ==
    /\ running # ""
    /\ ip > Len(teleportation)
    /\ initial_psi' = IF running = "initial" THEN statevector ELSE initial_psi
    /\ final_psi' = IF running = "final" THEN statevector ELSE final_psi
    /\ cell' = IF running = "initial" THEN "entangle" ELSE "done"
    /\ running' = ""
    /\ UNCHANGED << mvars, gvars, cvars, random_angles, teleportation, ip,
                    statevector, measurement_0, measurement_1, log >>

Next ==
    \/ PrepareCell
    \/ ExecuteInitial
    \/ EntangleCell
    \/ BasisChangeCell
    \/ MeasureCell
    \/ CorrectCell
    \/ ExecuteFinal
    \/ SimU3
    \/ SimH
    \/ SimCX
    \/ SimX
    \/ SimZ
    \/ SimMeasure
    \/ GetStatevector

Spec == Init /\ [][Next]_vars

-----------------------------------------------------------------------------
(* Properties of the teleportation notebook                                *)

\* two one-qubit states are the same state up to a global phase: they are
\* proportional and have the same norm
SameUpToPhase(a, b) ==
    /\ Mul(a[1], b[2]) = Mul(a[2], b[1])
    /\ Norm2(a) = Norm2(b)

\* the state of qubit q in the product state v whose other qubits read as the
\* basis index i does
QubitState(v, q, i) == << v[SetBit(i, q, 0) + 1], v[SetBit(i, q, 1) + 1] >>

\* the basis index with alice[0] = m0, alice[1] = m1, bob[0] = 0
Outcome == measurement_0 * Pow2(alice[1]) + measurement_1 * Pow2(alice[2])

\* the state the first execute found on alice[0]
PreparedState == QubitState(initial_psi, alice[1], 0)

\* the state the last execute left on bob[0]
BobState == QubitState(final_psi, bob[1], Outcome)

\* places of the log where the instruction op is entered as applied
AppliedAt(op) == {k \in 1..Len(log) : log[k].name = op /\ log[k].applied}

\* C1: once the notebook has run, whatever the angles and whatever the two
\* measurement outcomes, Alice's qubits read their outcomes and the state of
\* bob[0] is the state first prepared on alice[0], up to a global phase.
C1_TeleportationCorrect ==
    cell = "done" =>
        /\ \A i \in 0..(Len(final_psi) - 1) :
              (Bit(i, alice[1]) # measurement_0 \/ Bit(i, alice[2]) # measurement_1)
                  => final_psi[i + 1] = Zero
        /\ SameUpToPhase(BobState, PreparedState)

\* C1 witness: a run that ended with both outcomes 1 and a state that is
\* neither |0> nor |1>
C1_Witness ==
    /\ cell = "done"
    /\ measurement_0 = 1 /\ measurement_1 = 1
    /\ PreparedState[1] # Zero /\ PreparedState[2] # Zero
    /\ random_angles[2] # 0

\* C2: in a finished run X was applied to bob[0] once if m1 = 1 and never
\* otherwise, and Z was applied once if m0 = 1 and never otherwise.
C2_CorrectionSelected ==
    cell = "done" =>
        /\ Cardinality(AppliedAt("x")) = measurement_1
        /\ Cardinality(AppliedAt("z")) = measurement_0
        /\ \A k \in AppliedAt("x") \cup AppliedAt("z") : log[k].qargs = bob

\* C2 witness: a finished run with outcomes (0, 1), where X alone was applied
C2_Witness ==
    /\ cell = "done"
    /\ measurement_0 = 0 /\ measurement_1 = 1
    /\ AppliedAt("x") # {} /\ AppliedAt("z") = {}

Entangled ==
    /\ running = "final"
    /\ Len(log) = 3
    /\ log[2] = LogEntry(Gate("h", << alice[2] >>), TRUE)
    /\ log[3] = LogEntry(Gate("cx", << alice[2], bob[1] >>), TRUE)

\* C4: before the entangling step alice[1] and bob[0] are in |0> (the state is
\* the one the first execute returned); after H on alice[1] and CNOT(alice[1],
\* bob[0]) the state is the prepared state of alice[0] times
\* (|00> + |11>)/sqrt(2) on alice[1], bob[0].
C4_EntanglingStep ==
    /\ (running = "final" /\ Len(log) = 1) =>
          /\ statevector = initial_psi
          /\ \A i \in 0..(Len(statevector) - 1) :
                (Bit(i, alice[2]) = 1 \/ Bit(i, bob[1]) = 1)
                    => statevector[i + 1] = Zero
    /\ (running = "final" /\ Len(log) = 3) => Entangled
    /\ Entangled =>
          \A i \in 0..(Len(statevector) - 1) :
              statevector[i + 1] =
                  IF Bit(i, alice[2]) = Bit(i, bob[1])
                  THEN Mul(InvSqrt2, PreparedState[Bit(i, alice[1]) + 1])
                  ELSE Zero

\* C4 witness: the entangling step done on a state that is neither |0> nor |1>
C4_Witness ==
    /\ Entangled
    /\ statevector[1] # Zero /\ statevector[2] # Zero

\* the instructions of one run of the protocol up to the measurements, in order
Pipeline ==
    << LogEntry(Gate("u3", << alice[1] >>), TRUE),
       LogEntry(Gate("h", << alice[2] >>), TRUE),
       LogEntry(Gate("cx", << alice[2], bob[1] >>), TRUE),
       LogEntry(Gate("cx", << alice[1], alice[2] >>), TRUE),
       LogEntry(Gate("h", << alice[1] >>), TRUE),
       LogEntry(Gate("measure", << alice[1] >>), TRUE),
       LogEntry(Gate("measure", << alice[2] >>), TRUE) >>

\* C5: a run of the whole circuit goes through prepare, entangle, basis change
\* (CNOT then H) and the two measurements in this order, once each; whatever
\* follows is a correction on bob[0], each of the two met once, so none comes
\* before both measurements; and the finished run went through all of them.
C5_LinearPipeline ==
    (running = "final" \/ cell = "done") =>
        /\ \A k \in 1..Len(log) :
              IF k <= Len(Pipeline) THEN log[k] = Pipeline[k]
              ELSE /\ log[k].name \in {"x", "z"}
                   /\ log[k].qargs = bob
                   /\ \A j \in (Len(Pipeline) + 1)..(k - 1) : log[j].name # log[k].name
        /\ Len(log) <= Len(Pipeline) + Len(Corrections)
        /\ cell = "done" => Len(log) = Len(Pipeline) + Len(Corrections)

\* C5 witness: a finished run in which both corrections were applied
C5_Witness ==
    /\ cell = "done"
    /\ Len(log) = Len(Pipeline) + Len(Corrections)
    /\ \A k \in 1..Len(log) : log[k].applied

NormalizedOrUnset(v) == v = << >> \/ Norm2(v) = One

\* C10: the simulator's state vector has squared norm 1 after every instruction
\* (preparation, entangling, basis change, each collapse, each correction), and
\* so have the two state vectors the notebook keeps.
C10_Normalized ==
    /\ NormalizedOrUnset(statevector)
    /\ NormalizedOrUnset(initial_psi)
    /\ NormalizedOrUnset(final_psi)

\* C10 witness: a finished run with outcomes (1, 0), whose state vector went
\* through two collapses and a correction
C10_Witness ==
    /\ cell = "done"
    /\ measurement_0 = 1 /\ measurement_1 = 0
    /\ AppliedAt("z") # {}
    /\ Norm2(final_psi) = One

-----------------------------------------------------------------------------
(* The single-qubit gates notebook: create_movie and the cells that call it *)

\* most frames a cell asks for (num_frames)
MaxFrames == 5

\* longest rotation sequence handed to create_movie outside the cells
MaxSeqLen == 2

\* most frames a directory of the same name holds from an earlier call
MaxStale == 2

\* np.linspace(start, stop, num), num >= 2: num evenly spaced angles, the last
\* one stop itself
Linspace(start, stop, num) ==
    [i \in 1..num |->
        IF i = num THEN stop ELSE start + ((i - 1) * (stop - start)) \div (num - 1)]

\* every angle of np.linspace(start, stop, num) is a multiple of unit * pi/8
Exact(start, stop, num, unit) == (stop - start) % ((num - 1) * unit) = 0

\* the values of num_frames whose frames all have exact amplitudes here: theta
\* goes through multiples of pi/4, phi and lambda through multiples of pi/8
FrameCounts(theta, phi, lam) ==
    {n \in 2..MaxFrames : /\ Exact(theta[1], theta[2], n, 2)
                          /\ Exact(phi[1], phi[2], n, 1)
                          /\ Exact(lam[1], lam[2], n, 1)}

\* [(x[i], y[i], z[i]) for i in range(num_frames)]
Triples(x, y, z) == [i \in 1..Len(x) |-> << x[i], y[i], z[i] >>]

Constant(value, num) == [i \in 1..num |-> value]

\* a directory that was just made
EmptyDir == [exists |-> TRUE, frames |-> {}, video |-> FALSE]

NoDir == [exists |-> FALSE, frames |-> {}, video |-> FALSE]

\* what an earlier call with the same name may have left: k frames, and the
\* video if the encoder ran
StaleDir(k, video) ==
    [exists |-> TRUE,
     frames |-> {[idx |-> i, psi |-> << >>] : i \in 0..(k - 1)},
     video |-> video]

\* img.savefig(f"{name}/{name}_{idx}.png"): the file is written, or written over
SaveFig(d, idx, v) ==
    [d EXCEPT !.frames = {f \in d.frames : f.idx # idx} \cup {[idx |-> idx, psi |-> v]}]

\* the frame's circuit run on the register the frame before left, not on a new
\* one
FrameStateCarried(plus, rot) ==
    LET fresh == IF plus THEN ApplyGate(Hadamard, 0, Ground(1)) ELSE Ground(1)
        start == IF psi = << >> THEN fresh ELSE psi
    IN  ApplyGate(U3(rot[1], rot[2], rot[3]), 0, start)

\* the frame's circuit without the h, whatever start_from_plus is
FrameStateNoHadamard(plus, rot) ==
    ApplyGate(U3(rot[1], rot[2], rot[3]), 0, Ground(1))

\* the state vector of the one-qubit circuit of a frame: h if start_from_plus,
\* then u3(*rotation)
FrameState(plus, rot) ==
    LET start == IF plus THEN ApplyGate(Hadamard, 0, Ground(1)) ELSE Ground(1)
    IN  ApplyGate(U3(rot[1], rot[2], rot[3]), 0, start)

\* one request to the system: os.system(rm -r ...) with the number of frames it
\* removed, os.system(mkdir ...), img.savefig(...) with the index in the file
\* name, os.system(ffmpeg ...), io.open(...)
Call(op, arg) == [op |-> op, arg |-> arg]

\* create_movie entered without the rm -r: mkdir finds the directory and leaves
\* it as it is
CreateMovieKeep(nm, seq, plus) ==
    /\ pc = "idle"
    /\ name' = nm
    /\ rotation_sequence' = seq
    /\ start_from_plus' = plus
    /\ dir' = IF dir.exists THEN dir ELSE EmptyDir
    /\ calls' = << Call("rm", 0), Call("mkdir", 0) >>
    /\ idx_frame' = 0
    /\ pc' = "frames"
    /\ UNCHANGED << psi, result, tvars, gvars, cvars >>

\* create_movie(name, rotation_sequence, start_from_plus), up to the loop:
\* os.system(rm -r name); os.system(mkdir name)
CreateMovie(nm, seq, plus) ==
    /\ pc = "idle"
    /\ name' = nm
    /\ rotation_sequence' = seq
    /\ start_from_plus' = plus
    /\ dir' = EmptyDir
    /\ calls' = << Call("rm", Cardinality(dir.frames)), Call("mkdir", 0) >>
    /\ idx_frame' = 0
    /\ pc' = "frames"
    /\ UNCHANGED << psi, result, tvars, gvars, cvars >>

\* an X rotation with half the angle, pi/2
XCellHalf ==
    \E num_frames \in FrameCounts(<< 0, Pi \div 2 >>, << 0, 0 >>, << 0, 0 >>) :
        CreateMovie("x_gate",
                    Triples(Linspace(0, Pi \div 2, num_frames),
                            Constant(-(Pi \div 2), num_frames),
                            Constant(Pi \div 2, num_frames)),
                    FALSE)

\* the cell "An X rotation"
XCell ==
    \E num_frames \in FrameCounts(<< 0, Pi >>, << 0, 0 >>, << 0, 0 >>) :
        CreateMovie("x_gate",
                    Triples(Linspace(0, Pi, num_frames),
                            Constant(-(Pi \div 2), num_frames),
                            Constant(Pi \div 2, num_frames)),
                    FALSE)

\* the cell "A Y rotation"
YCell ==
    \E num_frames \in FrameCounts(<< 0, Pi >>, << 0, 0 >>, << 0, 0 >>) :
        CreateMovie("y_rotation",
                    Triples(Linspace(0, Pi, num_frames),
                            Constant(0, num_frames),
                            Constant(0, num_frames)),
                    FALSE)

\* the cells "A Z rotation", "S gate" and "T gate": (0, 0, theta) from |+>
PhaseCell(nm, rotation_angle) ==
    \E num_frames \in FrameCounts(<< 0, 0 >>, << 0, 0 >>, << 0, rotation_angle >>) :
        CreateMovie(nm,
                    Triples(Constant(0, num_frames),
                            Constant(0, num_frames),
                            Linspace(0, rotation_angle, num_frames)),
                    TRUE)

ZCell == PhaseCell("z_rotation", Pi)

SCell == PhaseCell("s_gate", Pi \div 2)

TCell == PhaseCell("t_gate", Pi \div 4)

\* the Hadamard cell with its three angles ending one step early
HadamardCellShort ==
    \E num_frames \in FrameCounts(<< 0, Pi \div 2 >>, << -(Pi \div 2), 0 >>,
                                   << Pi \div 2, Pi >>) :
        CreateMovie("hadamard_gate",
                    SubSeq(Triples(Linspace(0, Pi \div 2, num_frames + 1),
                                   Linspace(-(Pi \div 2), 0, num_frames + 1),
                                   Linspace(Pi \div 2, Pi, num_frames + 1)),
                           1, num_frames),
                    FALSE)

\* the cell "Hadamard rotation"
HadamardCell ==
    \E num_frames \in FrameCounts(<< 0, Pi \div 2 >>, << -(Pi \div 2), 0 >>,
                                   << Pi \div 2, Pi >>) :
        CreateMovie("hadamard_gate",
                    Triples(Linspace(0, Pi \div 2, num_frames),
                            Linspace(-(Pi \div 2), 0, num_frames),
                            Linspace(Pi \div 2, Pi, num_frames)),
                    FALSE)

\* entries a caller may put in a rotation sequence: angle triples, and tuples
\* that are no triple
Entries ==
    { << 0, 0, 0 >>, << Pi, 0, 0 >>, << Pi \div 2, 0, Pi >>,
      << Pi, 0 >>, << Pi, 0, 0, 0 >> }

SeqsUpTo(S, n) == UNION {[1..k -> S] : k \in 0..n}

\* create_movie called from a cell of the user's own
OtherCall ==
    \E seq \in SeqsUpTo(Entries, MaxSeqLen), plus \in BOOLEAN :
        CreateMovie("movie", seq, plus)

\* the loop taking whatever tuple it is given: missing angles read as 0, angles
\* beyond the third dropped
FrameUnchecked ==
    /\ pc = "frames"
    /\ idx_frame < Len(rotation_sequence)
    /\ LET given == rotation_sequence[idx_frame + 1]
           rot == [i \in 1..3 |-> IF i <= Len(given) THEN given[i] ELSE 0]
       IN  /\ psi' = FrameState(start_from_plus, rot)
           /\ dir' = SaveFig(dir, idx_frame, FrameState(start_from_plus, rot))
           /\ calls' = Append(calls, Call("savefig", idx_frame))
           /\ idx_frame' = idx_frame + 1
           /\ UNCHANGED << pc, result >>
    /\ UNCHANGED << name, rotation_sequence, start_from_plus, tvars, gvars, cvars >>

\* one turn of the loop over enumerate(rotation_sequence).  circ.u3(*rotation, q)
\* takes exactly three angles before q: any other tuple raises TypeError there.
Frame ==
    /\ pc = "frames"
    /\ idx_frame < Len(rotation_sequence)
    /\ LET rot == rotation_sequence[idx_frame + 1]
       IN  IF Len(rot) # 3
           THEN /\ pc' = "raised"
                /\ result' = "TypeError"
                /\ UNCHANGED << psi, dir, idx_frame, calls >>
           ELSE /\ psi' = FrameState(start_from_plus, rot)
                /\ dir' = SaveFig(dir, idx_frame, FrameState(start_from_plus, rot))
                /\ calls' = Append(calls, Call("savefig", idx_frame))
                /\ idx_frame' = idx_frame + 1
                /\ UNCHANGED << pc, result >>
    /\ UNCHANGED << name, rotation_sequence, start_from_plus, tvars, gvars, cvars >>

\* the encoder run inside the loop, as soon as the last entry is reached
EncodeEarly ==
    /\ pc = "frames"
    /\ idx_frame >= Len(rotation_sequence) - 1
    /\ \E ok \in BOOLEAN :
          /\ ok => \E f \in dir.frames : f.idx = 0
          /\ dir' = [dir EXCEPT !.video = ok]
    /\ calls' = Append(calls, Call("ffmpeg", 0))
    /\ pc' = "read"
    /\ UNCHANGED << name, rotation_sequence, start_from_plus, idx_frame, psi,
                    result, tvars, gvars, cvars >>

\* os.system(ffmpeg ...): the encoder writes the video, or fails and writes
\* nothing (it is not installed, or there is no frame 0); nothing is checked
Encode ==
    /\ pc = "frames"
    /\ idx_frame = Len(rotation_sequence)
    /\ \E ok \in BOOLEAN :
          /\ ok => \E f \in dir.frames : f.idx = 0
          /\ dir' = [dir EXCEPT !.video = ok]
    /\ calls' = Append(calls, Call("ffmpeg", 0))
    /\ pc' = "read"
    /\ UNCHANGED << name, rotation_sequence, start_from_plus, idx_frame, psi,
                    result, tvars, gvars, cvars >>

\* the video looked for before it is opened, and nothing returned without it
ReadVideoGuarded ==
    /\ pc = "read"
    /\ pc' = "returned"
    /\ result' = IF dir.video THEN "HTML" ELSE "None"
    /\ calls' = IF dir.video THEN Append(calls, Call("open", 0)) ELSE calls
    /\ UNCHANGED << name, rotation_sequence, start_from_plus, idx_frame, psi,
                    dir, tvars, gvars, cvars >>

\* io.open(...).read() and the return of the HTML video
ReadVideo ==
    /\ pc = "read"
    /\ IF dir.video
       THEN pc' = "returned" /\ result' = "HTML"
       ELSE pc' = "raised" /\ result' = "FileNotFoundError"
    /\ calls' = Append(calls, Call("open", 0))
    /\ UNCHANGED << name, rotation_sequence, start_from_plus, idx_frame, psi,
                    dir, tvars, gvars, cvars >>

MovieInit ==
    /\ TeleportationIdle
    /\ GateIdle
    /\ CoverIdle
    /\ pc = "idle"
    /\ name = ""
    /\ rotation_sequence = << >>
    /\ start_from_plus = FALSE
    /\ idx_frame = 0
    /\ psi = << >>
    /\ dir \in {NoDir} \cup {StaleDir(k, v) : k \in 0..MaxStale, v \in BOOLEAN}
    /\ result = ""
    /\ calls = << >>

MovieNext ==
    \/ XCell
    \/ YCell
    \/ ZCell
    \/ SCell
    \/ TCell
    \/ HadamardCell
    \/ OtherCall
    \/ Frame
    \/ Encode
    \/ ReadVideo

MovieSpec == MovieInit /\ [][MovieNext]_vars

-----------------------------------------------------------------------------
(* The u3 matrix on its own                                                *)

\* largest phi and lambda, in units of pi/8, and largest theta, in units of
\* pi/4, a matrix is evaluated for: 15 covers every angle modulo the period
MaxGateAngle == 15

GateInit ==
    /\ TeleportationIdle
    /\ MovieIdle
    /\ CoverIdle
    /\ rotation \in {<< 2 * t, p, l >> : t \in 0..MaxGateAngle,
                                         p \in 0..MaxGateAngle,
                                         l \in 0..MaxGateAngle}
    /\ unitary = << >>

EvaluateU3 ==
    /\ unitary = << >>
    /\ unitary' = U3(rotation[1], rotation[2], rotation[3])
    /\ UNCHANGED << rotation, tvars, mvars, cvars >>

GateNext == EvaluateU3

GateSpec == GateInit /\ [][GateNext]_vars

-----------------------------------------------------------------------------
(* Properties of the single-qubit gates notebook                           *)

\* entry (i, j) of the conjugate transpose of U times U
Gram(U, i, j) == Add(Mul(Conj(U[1][i]), U[1][j]), Mul(Conj(U[2][i]), U[2][j]))

IsUnitary(U) ==
    /\ Gram(U, 1, 1) = One
    /\ Gram(U, 1, 2) = Zero
    /\ Gram(U, 2, 1) = Zero
    /\ Gram(U, 2, 2) = One

\* C6: for every angle triple the matrix u3(theta, phi, lambda) is unitary: its
\* conjugate transpose times itself is the identity.
C6_U3Unitary == unitary # << >> => IsUnitary(unitary)

\* C6 witness: a matrix evaluated for three nonzero angles, no entry of it zero
C6_Witness ==
    /\ unitary # << >>
    /\ rotation[1] # 0 /\ rotation[2] # 0 /\ rotation[3] # 0
    /\ \A i, j \in 1..2 : unitary[i][j] # Zero

\* the loop of create_movie has gone through the whole sequence of the call nm
LoopDone(nm) ==
    /\ name = nm
    /\ pc \in {"frames", "read", "returned", "raised"}
    /\ rotation_sequence # << >>
    /\ idx_frame = Len(rotation_sequence)

\* the frame saved last
LastFrame == {f \in dir.frames : f.idx = Len(rotation_sequence) - 1}

\* C7: the X rotation ends on the triple (pi, -pi/2, pi/2), and its last frame,
\* u3(pi, -pi/2, pi/2) applied to |0>, is |1> up to a global phase.
C7_XGateLastFrame ==
    LoopDone("x_gate") =>
        /\ ~start_from_plus
        /\ rotation_sequence[Len(rotation_sequence)] = << Pi, -(Pi \div 2), Pi \div 2 >>
        /\ psi = FrameState(FALSE, << Pi, -(Pi \div 2), Pi \div 2 >>)
        /\ psi[1] = Zero
        /\ Abs2(psi[2]) = One
        /\ \A f \in LastFrame : f.psi = psi

\* C7 witness: the X cell went through a sequence of more than two frames
C7_Witness ==
    /\ LoopDone("x_gate")
    /\ Len(rotation_sequence) > 2
    /\ LastFrame # {}

\* C8: the Hadamard rotation ends on the triple (pi/2, 0, pi), and its last
\* frame, u3(pi/2, 0, pi) applied to |0>, is (|0> + |1>)/sqrt(2).
C8_HadamardLastFrame ==
    LoopDone("hadamard_gate") =>
        /\ ~start_from_plus
        /\ rotation_sequence[Len(rotation_sequence)] = << Pi \div 2, 0, Pi >>
        /\ psi = FrameState(FALSE, << Pi \div 2, 0, Pi >>)
        /\ psi = << InvSqrt2, InvSqrt2 >>
        /\ \A f \in LastFrame : f.psi = psi

\* C8 witness: the Hadamard cell went through a sequence of more than two frames
C8_Witness ==
    /\ LoopDone("hadamard_gate")
    /\ Len(rotation_sequence) > 2
    /\ LastFrame # {}

-----------------------------------------------------------------------------
(* Properties of create_movie: its frames, its directory, its side effects *)

\* the savefig requests among the calls, in the order they were made
SaveFigCalls == SelectSeq(calls, LAMBDA c : c.op = "savefig")

\* the state vector of entry rot taken on its own: u3(*rot) on a register in
\* |+> if plus, in |0> if not
FreshFrame(plus, rot) ==
    ApplyGate(U3(rot[1], rot[2], rot[3]), 0,
              IF plus THEN << InvSqrt2, InvSqrt2 >> ELSE << One, Zero >>)

\* the call has left the loop by its end
LoopLeft == pc \in {"read", "returned"} \/ result = "FileNotFoundError"

\* C11: the frames are saved one per entry, with the indices 0, 1, 2, ... in
\* this order and each once; the frame of index i is the state vector of entry
\* i alone, on a new register; and a loop that was left by its end has saved a
\* frame for each of the N entries.
C11_OneFramePerEntry ==
    pc # "idle" =>
        /\ Len(SaveFigCalls) = idx_frame
        /\ \A k \in 1..Len(SaveFigCalls) : SaveFigCalls[k].arg = k - 1
        /\ {f.idx : f \in dir.frames} = 0..(idx_frame - 1)
        /\ Cardinality(dir.frames) = idx_frame
        /\ \A f \in dir.frames :
              f.psi = FreshFrame(start_from_plus, rotation_sequence[f.idx + 1])
        /\ idx_frame > 0 =>
              psi = FreshFrame(start_from_plus, rotation_sequence[idx_frame])
        /\ LoopLeft => idx_frame = Len(rotation_sequence)

\* C11 witness: a call that returned the video of two equal entries, where a
\* register kept from the first frame would have given another second frame
C11_Witness ==
    /\ pc = "returned"
    /\ Len(rotation_sequence) = 2
    /\ rotation_sequence[1] = rotation_sequence[2]
    /\ rotation_sequence[1] = << Pi, 0, 0 >>
    /\ Cardinality(dir.frames) = 2

\* C12: once the call has made its directory, every frame in it was saved by
\* this call, under an index below N, and a video in it was encoded by this
\* call: nothing is left of what the directory held before.
C12_DirectoryOverwritten ==
    pc # "idle" =>
        /\ dir.exists
        /\ \A f \in dir.frames :
              /\ f.idx < Len(rotation_sequence)
              /\ \E k \in 1..Len(calls) : calls[k] = Call("savefig", f.idx)
              /\ f.psi # << >>
        /\ dir.video => \E k \in 1..Len(calls) : calls[k].op = "ffmpeg"

\* C12 witness: a call that ended with fewer frames than the directory it
\* removed had
C12_Witness ==
    /\ pc \in {"returned", "raised"}
    /\ calls[1].op = "rm"
    /\ calls[1].arg > Len(rotation_sequence)
    /\ Cardinality(dir.frames) = Len(rotation_sequence)

\* C14: with start_from_plus every saved frame is its rotation applied to the
\* uniform superposition, (column 1 + column 2) / sqrt(2) of the u3 matrix;
\* without it every saved frame is the rotation applied to |0>, column 1.  The
\* Z, S and T cells start from plus, the X, Y and Hadamard cells do not.
C14_HadamardIffPlus ==
    pc # "idle" =>
        /\ \A f \in dir.frames :
              LET rot == rotation_sequence[f.idx + 1]
                  U == U3(rot[1], rot[2], rot[3])
              IN  f.psi = [i \in 1..2 |->
                              IF start_from_plus
                              THEN Mul(InvSqrt2, Add(U[i][1], U[i][2]))
                              ELSE U[i][1]]
        /\ name \in {"z_rotation", "s_gate", "t_gate"} => start_from_plus
        /\ name \in {"x_gate", "y_rotation", "hadamard_gate"} => ~start_from_plus

\* C14 witness: the Z rotation cell has saved its first frame, whose rotation
\* is the identity: the frame is the uniform superposition itself
C14_Witness ==
    /\ name = "z_rotation"
    /\ start_from_plus
    /\ [idx |-> 0, psi |-> << InvSqrt2, InvSqrt2 >>] \in dir.frames
    /\ idx_frame = Len(rotation_sequence)

\* the k-th request of a call over n entries that runs to its end
ExpectedCall(k, n) ==
    IF k = 1 THEN "rm"
    ELSE IF k = 2 THEN "mkdir"
    ELSE IF k <= n + 2 THEN "savefig"
    ELSE IF k = n + 3 THEN "ffmpeg"
    ELSE "open"

\* C15: the requests of a call come in one order: rm, mkdir, then the frames
\* 0 to N-1, then the encoder, then the opening of the video.  So no frame is
\* written before the directory is made anew, the encoder is run once and only
\* after the N frames, and the video is opened only after the encoder.
C15_SideEffectOrder ==
    LET n == Len(rotation_sequence)
    IN  /\ Len(calls) <= n + 4
        /\ \A k \in 1..Len(calls) :
              /\ calls[k].op = ExpectedCall(k, n)
              /\ calls[k].op = "savefig" => calls[k].arg = k - 3
        /\ pc = "frames" => Len(calls) = idx_frame + 2
        /\ pc = "read" => Len(calls) = n + 3
        /\ pc = "returned" => Len(calls) = n + 4
        /\ result = "FileNotFoundError" => Len(calls) = n + 4

\* C15 witness: a call over two entries that returned its video
C15_Witness ==
    /\ pc = "returned"
    /\ Len(rotation_sequence) = 2
    /\ Len(calls) = 6
    /\ calls[5].op = "ffmpeg"

\* C16: a call returns only with the video on disk; when the encoder has left
\* no video the call ends raising FileNotFoundError from the opening, with the
\* N frames still in the directory; and a call with no entry always ends so.
C16_EncoderUnchecked ==
    /\ pc = "returned" => dir.video /\ result = "HTML"
    /\ (pc \in {"returned", "raised"} /\ result # "TypeError" /\ ~dir.video) =>
          /\ pc = "raised"
          /\ result = "FileNotFoundError"
          /\ calls[Len(calls)].op = "open"
          /\ {f.idx : f \in dir.frames} = 0..(Len(rotation_sequence) - 1)
    /\ result = "FileNotFoundError" => pc = "raised" /\ ~dir.video
    /\ (pc \in {"returned", "raised"} /\ rotation_sequence = << >>) =>
          result = "FileNotFoundError"

\* C16 witness: the encoder failed after two frames were saved, and the call
\* raised with both frames on disk
C16_Witness ==
    /\ pc = "raised"
    /\ result = "FileNotFoundError"
    /\ ~dir.video
    /\ Cardinality(dir.frames) = 2

-----------------------------------------------------------------------------
(* Alice's qubits after the measurements                                   *)

\* qubit q of the state vector v is in the basis state |b>
Reads(v, q, b) ==
    /\ \A i \in 0..(Len(v) - 1) : Bit(i, q) # b => v[i + 1] = Zero
    /\ Norm2(v) = One

\* the measurements the running circuit has made so far
Measured == {k \in 1..Len(log) : log[k].name = "measure"}

\* C13: from the second measurement on, through each correction on bob[0] and
\* in the final state vector, alice[0] is in |m0> and alice[1] is in |m1>; and
\* a correction step never changes what the two qubits read.
C13_AliceHoldsOutcomes ==
    /\ (running = "final" /\ Cardinality(Measured) = 2) =>
          /\ Reads(statevector, alice[1], measurement_0)
          /\ Reads(statevector, alice[2], measurement_1)
    /\ cell = "done" =>
          /\ Reads(final_psi, alice[1], measurement_0)
          /\ Reads(final_psi, alice[2], measurement_1)
          /\ \A k \in AppliedAt("x") \cup AppliedAt("z") :
                /\ \A m \in Measured : m < k
                /\ \A j \in 1..Len(log[k].qargs) :
                      log[k].qargs[j] \notin {alice[1], alice[2]}

\* C13 witness: a finished run with outcomes (1, 0), where the Z correction
\* was applied to bob[0]
C13_Witness ==
    /\ cell = "done"
    /\ measurement_0 = 1 /\ measurement_1 = 0
    /\ AppliedAt("z") # {}
    /\ final_psi[Outcome + 1] # Zero
    /\ final_psi[Outcome + Pow2(bob[1]) + 1] # Zero

-----------------------------------------------------------------------------
(* The vertex cover notebook                                               *)

\* largest n_vertices a graph is drawn with
MaxVertices == 4

\* 1.2 in place of 0.8
gammaAboveOne == [num |-> 6, den |-> 5]

\* gamma = 0.8, as the fraction 4/5.  Coefficients and energies are kept as whole
\* numbers of 1/gamma.den: the coefficient 1 is gamma.den, gamma is gamma.num
gamma == [num |-> 4, den |-> 5]

\* the pairs (u, v), u < v, that may be edges on the vertices 0..n-1
Pairs(n) == {e \in (0..(n - 1)) \X (0..(n - 1)) : e[1] < e[2]}

\* small_graph.degree[v]
Degree(g, v) == Cardinality({e \in g.edges : e[1] = v \/ e[2] = v})

\* the sum of f over S
RECURSIVE Sum(_, _)
Sum(f, S) ==
    IF S = {} THEN 0
    ELSE LET a == CHOOSE a \in S : TRUE
         IN  f[a] + Sum(f, S \ {a})

\* n_vertices = ...; n_edges = ...; small_graph = nx.gnm_random_graph(...)
GraphCell ==
    /\ at = "graph"
    /\ \E n_vertices \in 1..MaxVertices :
          \E edges \in SUBSET Pairs(n_vertices) :
              small_graph' = [nodes |-> 0..(n_vertices - 1), edges |-> edges]
    /\ at' = "qubo"
    /\ UNCHANGED << Q, r, bqm, response, colour_assignments, colours, tvars,
                    mvars, gvars >>

\* the linear coefficient with the degree added, not taken off
LinearDegreeAdded(g, v) == gamma.num + gamma.den * Degree(g, v)

\* gamma - small_graph.degree[x]
Linear(g, v) == gamma.num - gamma.den * Degree(g, v)

\* Q = {x : 1 for x in small_graph.edges()}
\* r = {x : (gamma - small_graph.degree[x]) for x in small_graph.nodes}
QuboCell ==
    /\ at = "qubo"
    /\ Q' = [e \in small_graph.edges |-> gamma.den]
    /\ r' = [v \in small_graph.nodes |-> Linear(small_graph, v)]
    /\ at' = "solve"
    /\ UNCHANGED << small_graph, bqm, response, colour_assignments, colours,
                    tvars, mvars, gvars >>

\* dimod.BinaryQuadraticModel(linear, quadratic, offset, dimod.BINARY)
BinaryQuadraticModel(linear, quadratic, offset) ==
    [linear |-> linear, quadratic |-> quadratic, offset |-> offset,
     vartype |-> "BINARY"]

\* the energy of the sample x in the model m
Energy(m, x) ==
    m.offset
    + Sum([v \in DOMAIN m.linear |-> m.linear[v] * x[v]], DOMAIN m.linear)
    + Sum([e \in DOMAIN m.quadratic |-> m.quadratic[e] * x[e[1]] * x[e[2]]],
          DOMAIN m.quadratic)

\* dimod.ExactSolver().sample(m): every 0/1 assignment with its energy
ExactSolver(m) ==
    {[sample |-> x, energy |-> Energy(m, x)] : x \in [DOMAIN m.linear -> {0, 1}]}

\* the rows response.data() may give first: those of the lowest energy
Lowest(resp) == {s \in resp : \A t \in resp : s.energy <= t.energy}

\* bqm = dimod.BinaryQuadraticModel(r, Q, 0, dimod.BINARY)
\* response = dimod.ExactSolver().sample(bqm)
SolveCell ==
    /\ at = "solve"
    /\ bqm' = BinaryQuadraticModel(r, Q, 0)
    /\ response' = ExactSolver(BinaryQuadraticModel(r, Q, 0))
    /\ at' = "colour"
    /\ UNCHANGED << small_graph, Q, r, colour_assignments, colours, tvars,
                    mvars, gvars >>

\* colour_assignments = next(response.data(['sample']))[0]
\* colours = ['grey' if colour_assignments[x] == 0 else 'red' for x in range(...)]
ColourCell ==
    /\ at = "colour"
    /\ \E first \in Lowest(response) :
          /\ colour_assignments' = first.sample
          /\ colours' = [x \in 0..(Cardinality(DOMAIN first.sample) - 1) |->
                            IF first.sample[x] = 0 THEN "grey" ELSE "red"]
    /\ at' = "done"
    /\ UNCHANGED << small_graph, Q, r, bqm, response, tvars, mvars, gvars >>

CoverInit ==
    /\ TeleportationIdle
    /\ MovieIdle
    /\ GateIdle
    /\ at = "graph"
    /\ small_graph = << >>
    /\ Q = << >>
    /\ r = << >>
    /\ bqm = << >>
    /\ response = {}
    /\ colour_assignments = << >>
    /\ colours = << >>

CoverNext ==
    \/ GraphCell
    \/ QuboCell
    \/ SolveCell
    \/ ColourCell

CoverSpec == CoverInit /\ [][CoverNext]_vars

-----------------------------------------------------------------------------
(* Properties of the vertex cover notebook                                 *)

\* the 0/1 assignments to the vertices of g
Assignments(g) == [g.nodes -> {0, 1}]

\* the number of coloured vertices of x
Coloured(g, x) == Cardinality({v \in g.nodes : x[v] = 1})

\* the edges of g with no coloured end in x
Uncovered(g, x) == {e \in g.edges : x[e[1]] = 0 /\ x[e[2]] = 0}

\* the objective of the notebook text, in units of 1/gamma.den:
\* sum over edges of (1 - x_u)(1 - x_v), plus gamma times the coloured vertices
Objective(g, x) ==
    gamma.den * Cardinality(Uncovered(g, x)) + gamma.num * Coloured(g, x)

\* the assignments of least objective
Minimisers(g) ==
    {x \in Assignments(g) : \A y \in Assignments(g) : Objective(g, x) <= Objective(g, y)}

\* C17: the model the notebook builds has the coefficient 1 on each edge,
\* gamma - deg(v) on each vertex and the offset 0; the energy it gives each 0/1
\* assignment is the objective of that assignment minus the number of edges;
\* and the assignments of lowest energy are those of least objective.
C17_QuboRewrite ==
    at \in {"colour", "done"} =>
        /\ bqm.offset = 0
        /\ DOMAIN bqm.quadratic = small_graph.edges
        /\ \A e \in small_graph.edges : bqm.quadratic[e] = gamma.den
        /\ DOMAIN bqm.linear = small_graph.nodes
        /\ \A v \in small_graph.nodes :
              bqm.linear[v] = gamma.num - gamma.den * Degree(small_graph, v)
        /\ {s.sample : s \in response} = Assignments(small_graph)
        /\ \A s \in response :
              s.energy = Objective(small_graph, s.sample)
                           - gamma.den * Cardinality(small_graph.edges)
        /\ {s.sample : s \in Lowest(response)} = Minimisers(small_graph)

\* C17 witness: a solved graph with a vertex of degree 2 or more and a vertex of
\* degree 0, and a sample of energy below zero
C17_Witness ==
    /\ at = "colour"
    /\ \E v \in small_graph.nodes : Degree(small_graph, v) >= 2
    /\ \E v \in small_graph.nodes : Degree(small_graph, v) = 0
    /\ \E s \in response : s.energy < 0

\* x colours an end of every edge of g
IsVertexCover(g, x) == Uncovered(g, x) = {}

\* C18: with 0 < gamma < 1, every assignment of lowest energy, and so the one
\* the notebook colours the graph by, is a vertex cover, and no vertex cover
\* colours fewer vertices.
C18_MinimumVertexCover ==
    /\ at \in {"colour", "done"} =>
          \A s \in Lowest(response) :
              /\ IsVertexCover(small_graph, s.sample)
              /\ \A y \in Assignments(small_graph) :
                    IsVertexCover(small_graph, y) =>
                        Coloured(small_graph, s.sample) <= Coloured(small_graph, y)
    /\ at = "done" =>
          /\ [sample |-> colour_assignments,
              energy |-> Energy(bqm, colour_assignments)] \in Lowest(response)
          /\ \A e \in small_graph.edges :
                colours[e[1]] = "red" \/ colours[e[2]] = "red"

\* C18 witness: a triangle with a fourth vertex apart, coloured with two red
\* vertices of the triangle
C18_Witness ==
    /\ at = "done"
    /\ small_graph.edges = {<< 0, 1 >>, << 0, 2 >>, << 1, 2 >>}
    /\ Cardinality(small_graph.nodes) > 3
    /\ Coloured(small_graph, colour_assignments) = 2
    /\ colours[3] = "grey"

=============================================================================
